---- MODULE Spec2Model ----
(***************************************************************************)
(* SelectiveMagnoViT (selective_magno_vit/models/selective_vit.py) and the *)
(* command-line override logic of scripts/train.py, as state machines.     *)
(*                                                                         *)
(* Three specifications share the definitions below:                       *)
(*   SpecInit   SelectiveMagnoViT.__init__ step by step over a wide range  *)
(*              of constructor arguments, then the configuration accessors *)
(*   Spec       a constructed model serving forward / diagnostic calls     *)
(*   SpecTrain  scripts/train.py main() up to the creation of the model    *)
(*                                                                         *)
(* Numbers: patch_percentage is the rational ppNum / PPDen.  Tensors are   *)
(* kept by shape and by symbolic content (which parameter, which patch of  *)
(* which batch element), not by floating point value.                      *)
(***************************************************************************)
EXTENDS Integers, Sequences, FiniteSets, TLC

VARIABLES
    pc,         \* position of the model object: inside __init__, ready, failed
    args,       \* the constructor arguments of SelectiveMagnoViT
    self,       \* attributes stored on the model object
    vit,        \* the timm backbone held in self.vit and its components
    err,        \* exception raised by __init__ ("none" when none)
    training,   \* nn.Module.training of the model
    out,        \* what the last call returned or raised
    tpc,        \* position inside train.py main()
    targs,      \* argparse namespace of train.py
    config,     \* Config object of train.py
    loaders     \* configuration entries the data loaders were created from

vars == <<pc, args, self, vit, err, training, out, tpc, targs, config, loaders>>

modelVars == <<pc, args, self, vit, err, training, out>>
trainVars == <<tpc, targs, config, loaders>>

-----------------------------------------------------------------------------
(* Bounds of the model *)

MaxImg == 4        \* img_size ranges over 1..MaxImg in SpecInit
MaxPatch == 4      \* patch_size ranges over 0..MaxPatch in SpecInit
PPDen == 8         \* patch_percentage ranges over -1/PPDen .. (PPDen+1)/PPDen
MaxCallImg == 2    \* img_size of the models that serve calls in Spec
MaxBatch == 2      \* batch sizes of the tensors passed to calls
MaxThreshold == 3  \* selector threshold ranges over {0, MaxThreshold}

(* Program constants *)

NumClasses == 10       \* default num_classes
DefaultImgSize == 64   \* default img_size
DefaultPatchSize == 4  \* default patch_size
VitEmbedDim == 192     \* embed_dim of the default backbone vit_tiny_patch16_224
VitImgSize == 224      \* img_size of the default backbone
VitPatchSize == 16     \* patch_size of the default backbone
VitDropRate == 0       \* drop_rate of a backbone created without drop_rate

-----------------------------------------------------------------------------
(* Small helpers *)

Max(a, b) == IF a >= b THEN a ELSE b
Abs(x) == IF x < 0 THEN -x ELSE x

None == << >>          \* Python None for an Optional argument
Some(x) == <<x>>

NoOut == [op |-> "none"]

-----------------------------------------------------------------------------
(* SelectiveMagnoViT.__init__ *)

\* variant: the lower bound of patch_percentage tested with <=
ValidationError_ZeroAccepted(a) ==
    IF ~(0 <= a.ppNum /\ a.ppNum <= PPDen) THEN "ValueError:patch_percentage"
    ELSE IF a.patch_size = 0 THEN "ZeroDivisionError"
    ELSE IF a.img_size % a.patch_size # 0 THEN "ValueError:img_size"
    ELSE "none"

\* lines 53-57: the two validations, in order.  img_size % patch_size with
\* patch_size = 0 raises ZeroDivisionError while evaluating the condition.
ValidationError(a) ==
    IF ~(0 < a.ppNum /\ a.ppNum <= PPDen) THEN "ValueError:patch_percentage"
    ELSE IF a.patch_size = 0 THEN "ZeroDivisionError"
    ELSE IF a.img_size % a.patch_size # 0 THEN "ValueError:img_size"
    ELSE "none"

\* lines 59-64: configuration stored on the object
StoredConfig(a) ==
    [patch_percentage |-> a.ppNum,
     num_classes      |-> a.num_classes,
     img_size         |-> a.img_size,
     patch_size       |-> a.patch_size,
     embed_dim        |-> 0,
     num_patches      |-> 0]

\* the backbone object before timm.create_model has run
NoBackbone ==
    [loaded      |-> FALSE,
     embed_dim   |-> 0,
     patch_embed |-> [img_size |-> 0, patch_size |-> 0, embed_dim |-> 0,
                      num_patches |-> 0, replaced |-> FALSE],
     pos_embed   |-> [rows |-> 0, dim |-> 0, val |-> << >>],
     cls_token   |-> [dim |-> 0, val |-> << >>],
     blocks      |-> 0,
     norm        |-> 0,
     drop_rate   |-> 0,
     head        |-> [in_dim |-> 0, out_dim |-> 0, replaced |-> FALSE]]

\* line 67: timm.create_model(vit_model_name, pretrained=pretrained)
CreateBackbone ==
    [loaded      |-> TRUE,
     embed_dim   |-> VitEmbedDim,
     patch_embed |-> [img_size |-> VitImgSize, patch_size |-> VitPatchSize,
                      embed_dim |-> VitEmbedDim,
                      num_patches |-> (VitImgSize \div VitPatchSize)
                                       * (VitImgSize \div VitPatchSize),
                      replaced |-> FALSE],
     pos_embed   |-> [rows |-> (VitImgSize \div VitPatchSize)
                                * (VitImgSize \div VitPatchSize) + 1,
                      dim |-> VitEmbedDim, val |-> <<"pretrained">>],
     cls_token   |-> [dim |-> VitEmbedDim, val |-> <<"pretrained">>],
     blocks      |-> VitEmbedDim,
     norm        |-> VitEmbedDim,
     drop_rate   |-> VitDropRate,
     head        |-> [in_dim |-> VitEmbedDim, out_dim |-> 0, replaced |-> FALSE]]

\* lines 69-72: embed_dim defaults to the backbone's
ResolveEmbedDim(a, v) ==
    IF a.embed_dim = None THEN v.embed_dim ELSE a.embed_dim[1]

\* lines 76-81: timm PatchEmbed(img_size, patch_size, in_chans=3, embed_dim);
\* its num_patches is grid_size[0] * grid_size[1], grid_size = img // patch
NewPatchEmbed(a, d) ==
    [img_size |-> a.img_size, patch_size |-> a.patch_size, embed_dim |-> d,
     num_patches |-> (a.img_size \div a.patch_size) * (a.img_size \div a.patch_size),
     replaced |-> TRUE]

\* lines 84-88: nn.Parameter(torch.zeros(1, num_patches + 1, embed_dim)),
\* then trunc_normal_
NewPosEmbed(v, d) ==
    [rows |-> v.patch_embed.num_patches + 1, dim |-> d, val |-> <<"trunc_normal">>]

\* line 91: nn.Linear(embed_dim, num_classes)
NewHead(a, d) == [in_dim |-> d, out_dim |-> a.num_classes, replaced |-> TRUE]

\* The whole of __init__ for arguments that pass validation (lines 59-106)
ConstructedVit(a) ==
    LET v0 == CreateBackbone
        d  == ResolveEmbedDim(a, v0)
        v1 == [v0 EXCEPT !.patch_embed = NewPatchEmbed(a, d)]
        v2 == [v1 EXCEPT !.pos_embed = NewPosEmbed(v1, d)]
    IN  [v2 EXCEPT !.head = NewHead(a, d)]

ConstructedSelf(a) ==
    LET v == ConstructedVit(a)
    IN  [StoredConfig(a) EXCEPT !.embed_dim = ResolveEmbedDim(a, CreateBackbone),
                                !.num_patches = v.patch_embed.num_patches]

\* Constructor arguments tried in SpecInit
EmbedDimArgs == {None, Some(VitEmbedDim), Some(VitEmbedDim + 64)}
Thresholds == {0, MaxThreshold}

InitArgs ==
    [ppNum : -1 .. PPDen + 1, img_size : 1 .. MaxImg, patch_size : 0 .. MaxPatch,
     embed_dim : EmbedDimArgs, num_classes : {NumClasses},
     threshold : {MaxThreshold}]

NoTrain ==
    /\ tpc = "off"
    /\ targs = << >>
    /\ config = << >>
    /\ loaders = << >>

InitNew ==
    /\ pc = "start"
    /\ args \in InitArgs
    /\ self = << >>
    /\ vit = NoBackbone
    /\ err = "none"
    /\ training = TRUE
    /\ out = NoOut
    /\ NoTrain

\* lines 53-64
Validate ==
    /\ pc = "start"
    /\ IF ValidationError(args) # "none"
       THEN /\ pc' = "failed"
            /\ err' = ValidationError(args)
            /\ UNCHANGED self
       ELSE /\ pc' = "validated"
            /\ self' = StoredConfig(args)
            /\ UNCHANGED err
    /\ UNCHANGED <<args, vit, training, out, trainVars>>

\* lines 66-72
LoadBackbone ==
    /\ pc = "validated"
    /\ vit' = CreateBackbone
    /\ self' = [self EXCEPT !.embed_dim = ResolveEmbedDim(args, CreateBackbone)]
    /\ pc' = "loaded"
    /\ UNCHANGED <<args, err, training, out, trainVars>>

\* lines 74-81
ReplacePatchEmbed ==
    /\ pc = "loaded"
    /\ vit' = [vit EXCEPT !.patch_embed = NewPatchEmbed(args, self.embed_dim)]
    /\ pc' = "patch_embed"
    /\ UNCHANGED <<args, self, err, training, out, trainVars>>

\* lines 83-88
ReplacePosEmbed ==
    /\ pc = "patch_embed"
    /\ vit' = [vit EXCEPT !.pos_embed = NewPosEmbed(vit, self.embed_dim)]
    /\ pc' = "pos_embed"
    /\ UNCHANGED <<args, self, err, training, out, trainVars>>

\* lines 90-91
ReplaceHead ==
    /\ pc = "pos_embed"
    /\ vit' = [vit EXCEPT !.head = NewHead(args, self.embed_dim)]
    /\ pc' = "head"
    /\ UNCHANGED <<args, self, err, training, out, trainVars>>

\* lines 93-106: scorer, selector, self.num_patches
InitSelection ==
    /\ pc = "head"
    /\ self' = [self EXCEPT !.num_patches = vit.patch_embed.num_patches]
    /\ pc' = "ready"
    /\ UNCHANGED <<args, vit, err, training, out, trainVars>>

-----------------------------------------------------------------------------
(* Configuration accessors *)

\* variant: the product rounded to the nearest integer instead of truncated
get_num_selected_patches_Rounded(s) ==
    Max(1, (2 * s.num_patches * s.patch_percentage + PPDen) \div (2 * PPDen))

\* line 215: max(1, int(self.num_patches * self.patch_percentage)).
\* PPDen is a power of two, so the float product is exact and int() is the
\* floor of the non-negative quotient.
get_num_selected_patches(s) ==
    Max(1, (s.num_patches * s.patch_percentage) \div PPDen)

\* lines 217-231 (the two parameter counts are sums over backbone tensors and
\* are not modelled)
get_model_info(s) ==
    [model_name       |-> "SelectiveMagnoViT",
     img_size         |-> s.img_size,
     patch_size       |-> s.patch_size,
     num_patches      |-> s.num_patches,
     selected_patches |-> get_num_selected_patches(s),
     patch_percentage |-> s.patch_percentage,
     embed_dim        |-> s.embed_dim,
     num_classes      |-> s.num_classes]

CallNumSelected ==
    /\ pc = "ready"
    /\ out' = [op |-> "get_num_selected_patches",
               result |-> get_num_selected_patches(self)]
    /\ UNCHANGED <<pc, args, self, vit, err, training, trainVars>>

CallModelInfo ==
    /\ pc = "ready"
    /\ out' = [op |-> "get_model_info", result |-> get_model_info(self)]
    /\ UNCHANGED <<pc, args, self, vit, err, training, trainVars>>

NextInit ==
    \/ Validate
    \/ LoadBackbone
    \/ ReplacePatchEmbed
    \/ ReplacePosEmbed
    \/ ReplaceHead
    \/ InitSelection
    \/ CallNumSelected
    \/ CallModelInfo

SpecInit == InitNew /\ [][NextInit]_vars

-----------------------------------------------------------------------------
(* Tensors passed to the calls *)

Min(a, b) == IF a <= b THEN a ELSE b
Range(f) == {f[i] : i \in DOMAIN f}

\* int(n ** 0.5) for the small perfect squares met here
Isqrt(n) == CHOOSE r \in 0 .. n : r * r <= n /\ (r + 1) * (r + 1) > n

\* Python round(n / d) for n >= 0, d > 0: half to even
Round(n, d) ==
    LET q == n \div d
        r == n % d
    IN  IF 2 * r < d THEN q
        ELSE IF 2 * r > d THEN q + 1
        ELSE IF q % 2 = 0 THEN q ELSE q + 1

\* Content of a line drawing: one pattern per batch element
Patterns == {"zero", "flat", "asc"}

\* Intensity of pixel (r, c), zero-based, of an H x W drawing
\* ("flat": the same negative intensity everywhere; "asc": growing row by row)
PixelValue(pat, r, c, H, W) ==
    CASE pat = "zero" -> 0
      [] pat = "flat" -> -1
      [] pat = "asc"  -> r * W + c

\* Spatial sizes offered to a model configured for img x img images: the
\* right one, a larger square and a rectangle with the same area
Shapes(img) ==
    {<<img, img>>, <<2 * img, 2 * img>>}
      \cup (IF img \div 2 > 0 THEN {<<2 * img, img \div 2>>} ELSE {})

\* the right size and one wrong size
MagnoShapes(img) ==
    {<<img, img>>}
      \cup (IF img \div 2 > 0 THEN {<<2 * img, img \div 2>>} ELSE {<<2 * img, 2 * img>>})

TuplesUpTo(S, n) == UNION {[1 .. m -> S] : m \in 1 .. n}

\* magno_image (B, 3, H, W)
MagnoInputs(img) == [B : 1 .. MaxBatch, hw : MagnoShapes(img)]

\* line_drawing (B, 1, H, W): every content at the configured size, blank
\* drawings at the other sizes
LineInputs(img) ==
    {[B |-> Len(p), hw |-> <<img, img>>, pat |-> p] : p \in TuplesUpTo(Patterns, MaxBatch)}
      \cup {[B |-> Len(p), hw |-> s, pat |-> p] :
              p \in TuplesUpTo({"zero"}, MaxBatch), s \in Shapes(img) \ {<<img, img>>}}

-----------------------------------------------------------------------------
(* PatchImportanceScorer: one score per patch, the absolute intensity summed *)
(* over the patch (the mean times patch_size^2), row-major over the grid     *)

PatchScore(pat, i, H, W, p) ==
    LET gw == W \div p
        r0 == (i \div gw) * p
        c0 == (i % gw) * p
        RECURSIVE Sum(_)
        Sum(n) == IF n = 0 THEN 0
                  ELSE Sum(n - 1)
                       + Abs(PixelValue(pat, r0 + ((n - 1) \div p), c0 + ((n - 1) % p), H, W))
    IN  Sum(p * p)

Scorer(line, p) ==
    LET H == line.hw[1]
        W == line.hw[2]
    IN  IF H % p # 0 \/ W % p # 0
        THEN [err |-> "ShapeMismatchError"]
        ELSE [err |-> "none", B |-> line.B, N |-> (H \div p) * (W \div p),
              scores |-> [b \in 1 .. line.B |->
                            [i \in 0 .. (H \div p) * (W \div p) - 1 |->
                               PatchScore(line.pat[b], i, H, W, p)]]]

-----------------------------------------------------------------------------
(* Ranking helpers *)

\* The indices of S by descending key; equal keys by ascending index when
\* tie = "low", by descending index when tie = "high"
RECURSIVE RankDesc(_, _, _)
RankDesc(key, S, tie) ==
    IF S = {} THEN << >>
    ELSE LET best == CHOOSE i \in S : \A j \in S :
                        \/ key[i] > key[j]
                        \/ key[i] = key[j] /\ (IF tie = "low" THEN i <= j ELSE i >= j)
         IN  <<best>> \o RankDesc(key, S \ {best}, tie)

RECURSIVE SortAsc(_)
SortAsc(S) ==
    IF S = {} THEN << >>
    ELSE LET m == CHOOSE i \in S : \A j \in S : i <= j
         IN  <<m>> \o SortAsc(S \ {m})

-----------------------------------------------------------------------------
(* SpatialThresholdSelector *)

\* k = max(1, round(N * patch_percentage))
SelectorK(N, ppNum) == Max(1, Round(N * ppNum, PPDen))

\* Spatial smoothing of the score map: a patch's own score counts twice, the
\* scores of its four grid neighbours once
AdjustedScore(sc, N) ==
    LET side == Isqrt(N)
        Nbrs(i) == {j \in 0 .. N - 1 :
                      \/ j \div side = i \div side /\ Abs((j % side) - (i % side)) = 1
                      \/ j % side = i % side /\ Abs((j \div side) - (i \div side)) = 1}
        RECURSIVE SumOver(_)
        SumOver(S) == IF S = {} THEN 0
                      ELSE LET j == CHOOSE x \in S : TRUE
                           IN  sc[j] + SumOver(S \ {j})
    IN  [i \in 0 .. N - 1 |-> 2 * sc[i] + SumOver(Nbrs(i))]

\* Two tiers: the patches above threshold in rank order, up to k; then the
\* next-highest-ranked ones until k are chosen.  Lower index wins ties.
\* The chosen indices come back in ascending order.
SelectIndices(sc, N, k, threshold) ==
    LET adj   == AdjustedScore(sc, N)
        rank  == RankDesc(adj, 0 .. N - 1, "low")
        above == SelectSeq(rank, LAMBDA i : adj[i] > threshold)
        tier1 == SubSeq(above, 1, Min(k, Len(above)))
        rest  == SelectSeq(rank, LAMBDA i : i \notin Range(tier1))
        tier2 == SubSeq(rest, 1, k - Len(tier1))
    IN  SortAsc(Range(tier1 \o tier2))

\* Inputs: all_patches (B, N, D), pos_embed (1, N+1, D), patch_scores (B, N),
\* line_drawing (B, 1, H, W).  Each selected patch (src: batch element and
\* original index) gets the positional embedding of its original index + 1.
Selector(allp, pos, ps, line, ppNum, threshold) ==
    IF \/ ps.B # allp.B \/ line.B # allp.B
       \/ ps.N # allp.N
       \/ line.hw[1] # line.hw[2]
       \/ pos.rows # allp.N + 1 \/ pos.dim # allp.dim
    THEN [err |-> "ShapeMismatchError"]
    ELSE LET k == SelectorK(allp.N, ppNum)
             idx == [b \in 1 .. allp.B |-> SelectIndices(ps.scores[b], allp.N, k, threshold)]
         IN  [err |-> "none", B |-> allp.B, k |-> k, dim |-> allp.dim, idx |-> idx,
              tokens |-> [b \in 1 .. allp.B |->
                            [n \in 1 .. k |->
                               [kind |-> "patch", val |-> <<"patch_embed">>,
                                src |-> <<b, idx[b][n]>>,
                                pos |-> idx[b][n] + 1, posval |-> pos.val]]]]

-----------------------------------------------------------------------------
(* SelectiveMagnoViT.forward, step by step *)

\* variant: a patch embedding that takes any input size
PatchEmbedForward_AnySize(pe, magno) ==
    [err |-> "none", B |-> magno.B,
     N |-> (magno.hw[1] \div pe.patch_size) * (magno.hw[2] \div pe.patch_size),
     dim |-> pe.embed_dim]

\* line 125: timm PatchEmbed.forward asserts that the input height and width
\* are the img_size it was built with
PatchEmbedForward(pe, magno) ==
    IF magno.hw # <<pe.img_size, pe.img_size>>
    THEN [err |-> "AssertionError"]
    ELSE [err |-> "none", B |-> magno.B, N |-> pe.num_patches, dim |-> pe.embed_dim]

\* last dimensions that torch broadcasting accepts
Broadcastable(a, b) == a = b \/ a = 1 \/ b = 1

\* line 137: self.vit.cls_token + self.vit.pos_embed[:, :1, :]
ClsTokenWithPos(v) ==
    IF ~Broadcastable(v.cls_token.dim, v.pos_embed.dim)
    THEN [err |-> "RuntimeError"]
    ELSE [err |-> "none", dim |-> Max(v.cls_token.dim, v.pos_embed.dim),
          token |-> [kind |-> "cls", val |-> v.cls_token.val, src |-> << >>,
                     pos |-> 0, posval |-> v.pos_embed.val]]

\* variant: the two arguments of torch.cat in the other order
FullSequence_ClsLast(cls, sel, batch_size) ==
    IF sel.B # batch_size \/ sel.dim # cls.dim
    THEN [err |-> "RuntimeError"]
    ELSE [err |-> "none", B |-> batch_size, dim |-> cls.dim,
          seq |-> [b \in 1 .. batch_size |-> sel.tokens[b] \o <<cls.token>>]]

\* lines 140-144: torch.cat([cls.expand(batch_size, -1, -1), selected], dim=1)
FullSequence(cls, sel, batch_size) ==
    IF sel.B # batch_size \/ sel.dim # cls.dim
    THEN [err |-> "RuntimeError"]
    ELSE [err |-> "none", B |-> batch_size, dim |-> cls.dim,
          seq |-> [b \in 1 .. batch_size |-> <<cls.token>> \o sel.tokens[b]]]

\* line 147: self.vit.pos_drop, nn.Dropout(drop_rate): the identity unless
\* training with a positive rate; mask is the set of positions it zeroes
DropMasks(v, train, len) ==
    IF train /\ v.drop_rate > 0 THEN {{}} \cup {{i} : i \in 1 .. len} ELSE {{}}

PosDrop(seq, v, train, mask) ==
    IF train /\ v.drop_rate > 0
    THEN [b \in DOMAIN seq |->
            [i \in DOMAIN seq[b] |->
               IF i \in mask THEN [seq[b][i] EXCEPT !.kind = "zeroed"] ELSE seq[b][i]]]
    ELSE seq

\* lines 150-151: blocks and norm keep the shape (B, L, D); every output
\* position depends on the whole input sequence
Blocks(fs, seq, v) ==
    IF fs.dim # v.blocks \/ fs.dim # v.norm
    THEN [err |-> "RuntimeError"]
    ELSE [err |-> "none", dim |-> fs.dim,
          x |-> [b \in DOMAIN seq |->
                   [i \in DOMAIN seq[b] |-> [at |-> i - 1, of |-> seq[b]]]]]

\* lines 154-157: logits = head(x[:, 0])
VitHead(blk, v) ==
    IF blk.dim # v.head.in_dim
    THEN [err |-> "RuntimeError"]
    ELSE [err |-> "none",
          logits |-> [b \in DOMAIN blk.x |->
                        [classes |-> v.head.out_dim, from |-> blk.x[b][1]]]]

Raised(op, train, magno, line, kind, at, sel) ==
    [op |-> op, mode |-> IF train THEN "train" ELSE "eval", again |-> FALSE,
     magno |-> magno, line |-> line, status |-> "error", err |-> kind,
     at |-> at, sel |-> sel, seq |-> << >>, logits |-> << >>]

\* lines 121-159
ForwardResult(v, s, threshold, train, magno, line, mask) ==
    LET ps   == Scorer(line, s.patch_size)
        allp == PatchEmbedForward(v.patch_embed, magno)
        sel  == Selector(allp, v.pos_embed, ps, line, s.patch_percentage, threshold)
        cls  == ClsTokenWithPos(v)
        fs   == FullSequence(cls, sel, magno.B)
        seq  == PosDrop(fs.seq, v, train, mask)
        blk  == Blocks(fs, seq, v)
        hd   == VitHead(blk, v)
    IN  IF ps.err # "none" THEN Raised("forward", train, magno, line, ps.err, "scorer", << >>)
        ELSE IF allp.err # "none"
             THEN Raised("forward", train, magno, line, allp.err, "patch_embed", << >>)
        ELSE IF sel.err # "none"
             THEN Raised("forward", train, magno, line, sel.err, "selector", << >>)
        ELSE IF cls.err # "none"
             THEN Raised("forward", train, magno, line, cls.err, "cls_token", sel.idx)
        ELSE IF fs.err # "none"
             THEN Raised("forward", train, magno, line, fs.err, "cat", sel.idx)
        ELSE IF blk.err # "none"
             THEN Raised("forward", train, magno, line, blk.err, "blocks", sel.idx)
        ELSE IF hd.err # "none"
             THEN Raised("forward", train, magno, line, hd.err, "head", sel.idx)
        ELSE [op |-> "forward", mode |-> IF train THEN "train" ELSE "eval",
              again |-> FALSE, magno |-> magno, line |-> line, status |-> "ok",
              err |-> "none", at |-> "return", sel |-> sel.idx, seq |-> seq,
              logits |-> hd.logits]

\* length of the sequence forward builds for these inputs
SequenceLength(s) == SelectorK(s.num_patches, s.patch_percentage) + 1

-----------------------------------------------------------------------------
(* Diagnostic accessors *)

\* variant: torch.topk with largest=False
TopK_Smallest(sc, N, k, tie) ==
    LET r == RankDesc(sc, 0 .. N - 1, tie)
    IN  [n \in 1 .. k |-> r[N + 1 - n]]

\* torch.topk leaves the order of equal scores open: lower index first or
\* higher index first
TieOrders == {"low", "high"}

\* torch.topk(patch_scores, k, dim=1): the k largest, largest first
TopK(sc, N, k, tie) == SubSeq(RankDesc(sc, 0 .. N - 1, tie), 1, k)

\* variant: k without the minimum of one
GetSelectedPatchIndices_NoMinimum(s, tie, line) ==
    LET ps == Scorer(line, s.patch_size)
        k  == (ps.N * s.patch_percentage) \div PPDen
    IN  IF ps.err # "none"
        THEN [op |-> "get_selected_patch_indices", line |-> line,
              status |-> "error", err |-> ps.err, k |-> 0, indices |-> << >>]
        ELSE [op |-> "get_selected_patch_indices", line |-> line,
              status |-> "ok", err |-> "none", k |-> k,
              indices |-> [b \in 1 .. ps.B |->
                             SubSeq(RankDesc(ps.scores[b], 0 .. ps.N - 1, tie), 1, k)]]

\* lines 176-185
GetSelectedPatchIndices(s, tie, line) ==
    LET ps == Scorer(line, s.patch_size)
        k  == Max(1, (ps.N * s.patch_percentage) \div PPDen)
    IN  IF ps.err # "none"
        THEN [op |-> "get_selected_patch_indices", line |-> line,
              status |-> "error", err |-> ps.err, k |-> 0, indices |-> << >>]
        ELSE IF k > ps.N
        THEN [op |-> "get_selected_patch_indices", line |-> line,
              status |-> "error", err |-> "RuntimeError", k |-> k, indices |-> << >>]
        ELSE [op |-> "get_selected_patch_indices", line |-> line,
              status |-> "ok", err |-> "none", k |-> k,
              indices |-> [b \in 1 .. ps.B |-> TopK(ps.scores[b], ps.N, k, tie)]]

\* variant: the grid filled column by column
View_ColumnMajor(scores, B, N, side) ==
    LET flat == [n \in 0 .. B * N - 1 |-> scores[(n \div N) + 1][n % N]]
    IN  [b \in 1 .. (B * N) \div (side * side) |->
           [r \in 0 .. side - 1 |->
              [c \in 0 .. side - 1 |-> flat[(b - 1) * side * side + c * side + r]]]]

\* patch_scores.view(-1, 1, side, side): the (B, N) scores read in row-major
\* order; cell (r, c) of map b is element (b - 1) * side^2 + r * side + c
View(scores, B, N, side) ==
    LET flat == [n \in 0 .. B * N - 1 |-> scores[(n \div N) + 1][n % N]]
    IN  [b \in 1 .. (B * N) \div (side * side) |->
           [r \in 0 .. side - 1 |->
              [c \in 0 .. side - 1 |-> flat[(b - 1) * side * side + r * side + c]]]]

\* lines 202-211
GetPatchImportanceMap(s, line) ==
    LET ps   == Scorer(line, s.patch_size)
        side == Isqrt(s.num_patches)
    IN  IF ps.err # "none"
        THEN [op |-> "get_patch_importance_map", line |-> line,
              status |-> "error", err |-> ps.err, side |-> 0, map |-> << >>]
        ELSE IF (ps.B * ps.N) % (side * side) # 0
        THEN [op |-> "get_patch_importance_map", line |-> line,
              status |-> "error", err |-> "RuntimeError", side |-> side, map |-> << >>]
        ELSE [op |-> "get_patch_importance_map", line |-> line,
              status |-> "ok", err |-> "none", side |-> side,
              map |-> View(ps.scores, ps.B, ps.N, side)]

-----------------------------------------------------------------------------
(* A constructed model serving calls *)

CallArgs ==
    {a \in [ppNum : 1 .. PPDen, img_size : 1 .. MaxCallImg, patch_size : 1 .. MaxCallImg,
            embed_dim : {None, Some(VitEmbedDim + 64)}, num_classes : {NumClasses},
            threshold : Thresholds] : ValidationError(a) = "none"}

InitReady ==
    /\ args \in CallArgs
    /\ pc = "ready"
    /\ self = ConstructedSelf(args)
    /\ vit = ConstructedVit(args)
    /\ err = "none"
    /\ training = TRUE
    /\ out = NoOut
    /\ NoTrain

\* variant: the positional embedding added into the classification token in
\* place (cls_token += pos_embed[:, :1, :])
Forward_ClsTokenInPlace ==
    /\ pc = "ready"
    /\ out = NoOut
    /\ \E magno \in MagnoInputs(self.img_size), line \in LineInputs(self.img_size) :
         \E mask \in DropMasks(vit, training, SequenceLength(self)) :
            out' = ForwardResult(vit, self, args.threshold, training, magno, line, mask)
    /\ vit' = [vit EXCEPT !.cls_token.val = Append(@, "pos_embed")]
    /\ UNCHANGED <<pc, args, self, err, training, trainVars>>

\* model(magno_image, line_drawing)
Forward ==
    /\ pc = "ready"
    /\ out = NoOut
    /\ \E magno \in MagnoInputs(self.img_size), line \in LineInputs(self.img_size) :
         \E mask \in DropMasks(vit, training, SequenceLength(self)) :
            out' = ForwardResult(vit, self, args.threshold, training, magno, line, mask)
    /\ UNCHANGED <<pc, args, self, vit, err, training, trainVars>>

\* the same call once more, on the inputs of the call before
ForwardAgain ==
    /\ pc = "ready"
    /\ out.op = "forward"
    /\ \E mask \in DropMasks(vit, training, SequenceLength(self)) :
         out' = [ForwardResult(vit, self, args.threshold, training,
                               out.magno, out.line, mask) EXCEPT !.again = TRUE]
    /\ UNCHANGED <<pc, args, self, vit, err, training, trainVars>>

CallSelectedIndices ==
    /\ pc = "ready"
    /\ out = NoOut
    /\ \E line \in LineInputs(self.img_size), tie \in TieOrders :
         out' = GetSelectedPatchIndices(self, tie, line)
    /\ UNCHANGED <<pc, args, self, vit, err, training, trainVars>>

CallImportanceMap ==
    /\ pc = "ready"
    /\ out = NoOut
    /\ \E line \in LineInputs(self.img_size) :
         out' = GetPatchImportanceMap(self, line)
    /\ UNCHANGED <<pc, args, self, vit, err, training, trainVars>>

\* the caller drops the result of the last call
Discard ==
    /\ pc = "ready"
    /\ out # NoOut
    /\ out' = NoOut
    /\ UNCHANGED <<pc, args, self, vit, err, training, trainVars>>

\* nn.Module.eval() and nn.Module.train(), called between two calls
Eval ==
    /\ pc = "ready"
    /\ out = NoOut
    /\ training
    /\ training' = FALSE
    /\ UNCHANGED <<pc, args, self, vit, err, out, trainVars>>

Train ==
    /\ pc = "ready"
    /\ out = NoOut
    /\ ~training
    /\ training' = TRUE
    /\ UNCHANGED <<pc, args, self, vit, err, out, trainVars>>

Next ==
    \/ Forward
    \/ ForwardAgain
    \/ CallSelectedIndices
    \/ CallImportanceMap
    \/ CallNumSelected
    \/ CallModelInfo
    \/ Discard
    \/ Eval
    \/ Train

Spec == InitReady /\ [][Next]_vars

-----------------------------------------------------------------------------
(* scripts/train.py main(), up to the creation of the model *)

\* Python truth value of an optional number / an optional string
TruthyNum(x) == x # None /\ x[1] # 0
TruthyStr(x) == x # None /\ x[1] # ""

\* lines 24-67: what argparse can hand over; None when the option is absent
TrainArgs ==
    [patch_percentage : {None, Some(0), Some(PPDen \div 2), Some(PPDen), Some(PPDen + 1)},
     batch_size : {None, Some(16)},
     epochs     : {None, Some(5)},
     magno_dir  : {None, Some("cli/magno")},
     lines_dir  : {None, Some("cli/lines")},
     output_dir : {None, Some("cli/out")}]

\* line 74: Config(args.config), the entries of the configuration file
ConfigFiles ==
    [patch_percentage : {3, PPDen - 1}, batch_size : {32}, epochs : {100},
     magno_dir : {"cfg/magno"}, lines_dir : {"cfg/lines"}, output_dir : {"cfg/out"},
     img_size : {DefaultImgSize}, patch_size : {DefaultPatchSize},
     threshold : {MaxThreshold}]

\* lines 76-88: an option overrides its entry when its value is truthy
Overridden(c, a) ==
    [c EXCEPT
       !.magno_dir = IF TruthyStr(a.magno_dir) THEN a.magno_dir[1] ELSE @,
       !.lines_dir = IF TruthyStr(a.lines_dir) THEN a.lines_dir[1] ELSE @,
       !.output_dir = IF TruthyStr(a.output_dir) THEN a.output_dir[1] ELSE @,
       !.patch_percentage =
           IF TruthyNum(a.patch_percentage) THEN a.patch_percentage[1] ELSE @,
       !.batch_size = IF TruthyNum(a.batch_size) THEN a.batch_size[1] ELSE @,
       !.epochs = IF TruthyNum(a.epochs) THEN a.epochs[1] ELSE @]

\* lines 112-119: the constructor arguments taken from the configuration
ModelArgs(c) ==
    [ppNum |-> c.patch_percentage, img_size |-> c.img_size,
     patch_size |-> c.patch_size, embed_dim |-> None, num_classes |-> NumClasses,
     threshold |-> c.threshold]

InitTrain ==
    /\ tpc = "start"
    /\ targs \in TrainArgs
    /\ config = << >>
    /\ loaders = << >>
    /\ pc = "absent"
    /\ args = << >>
    /\ self = << >>
    /\ vit = NoBackbone
    /\ err = "none"
    /\ training = TRUE
    /\ out = NoOut

\* line 74
LoadConfig ==
    /\ tpc = "start"
    /\ config' \in ConfigFiles
    /\ tpc' = "config"
    /\ UNCHANGED <<targs, loaders, modelVars>>

\* lines 76-88
ApplyOverrides ==
    /\ tpc = "config"
    /\ config' = Overridden(config, targs)
    /\ tpc' = "overridden"
    /\ UNCHANGED <<targs, loaders, modelVars>>

\* lines 104-109: get_dataloaders(config)
CreateDataloaders ==
    /\ tpc = "overridden"
    /\ loaders' = [magno_dir |-> config.magno_dir, lines_dir |-> config.lines_dir,
                   batch_size |-> config.batch_size]
    /\ tpc' = "dataloaders"
    /\ UNCHANGED <<targs, config, modelVars>>

\* lines 111-119: SelectiveMagnoViT(...), the whole constructor
CreateModel ==
    /\ tpc = "dataloaders"
    /\ args' = ModelArgs(config)
    /\ IF ValidationError(ModelArgs(config)) # "none"
       THEN /\ pc' = "failed"
            /\ err' = ValidationError(ModelArgs(config))
            /\ tpc' = "crashed"
            /\ UNCHANGED <<self, vit>>
       ELSE /\ pc' = "ready"
            /\ self' = ConstructedSelf(ModelArgs(config))
            /\ vit' = ConstructedVit(ModelArgs(config))
            /\ tpc' = "model"
            /\ UNCHANGED err
    /\ UNCHANGED <<targs, config, loaders, training, out>>

NextTrain ==
    \/ LoadConfig
    \/ ApplyOverrides
    \/ CreateDataloaders
    \/ CreateModel

SpecTrain == InitTrain /\ [][NextTrain]_vars

-----------------------------------------------------------------------------
(* Construction: the step-by-step constructor and ConstructedVit agree *)

ConstructionAgrees ==
    pc = "ready" => vit = ConstructedVit(args) /\ self = ConstructedSelf(args)

-----------------------------------------------------------------------------
(* C1 *)

\* p divides n exactly (0 divides nothing positive)
Divides(p, n) == \E q \in 0 .. n : q * p = n

ValidConfiguration(a) ==
    0 < a.ppNum /\ a.ppNum <= PPDen /\ Divides(a.patch_size, a.img_size)

\* C1: once the validation at the head of __init__ has run, arguments with
\* patch_percentage outside (0,1] or img_size not divisible by patch_size have
\* made construction fail with an error while the backbone is still unloaded,
\* no component replaced and nothing stored; arguments with patch_percentage
\* in (0,1] and img_size % patch_size = 0 never fail.
C1_ValidationGuardsConstruction ==
    /\ (pc # "start" /\ ~ValidConfiguration(args))
          => pc = "failed" /\ err # "none" /\ vit = NoBackbone /\ self = << >>
    /\ ValidConfiguration(args) => pc # "failed" /\ err = "none"

C1_Witness ==
    /\ pc = "failed"
    /\ err = "ValueError:img_size"
    /\ 0 < args.ppNum /\ args.ppNum <= PPDen

-----------------------------------------------------------------------------
(* C9 *)

\* C9: after a successful construction the replaced patch embedding, the
\* replaced positional table (num_patches + 1 rows), the replaced head and the
\* retained classification token, blocks and norm share one embedding
\* dimension, whatever the embed_dim argument was.
C9_OneEmbeddingDimension ==
    pc = "ready" =>
        /\ vit.pos_embed.rows = self.num_patches + 1
        /\ vit.pos_embed.dim = vit.patch_embed.embed_dim
        /\ vit.head.in_dim = vit.patch_embed.embed_dim
        /\ vit.cls_token.dim = vit.patch_embed.embed_dim
        /\ vit.blocks = vit.patch_embed.embed_dim
        /\ vit.norm = vit.patch_embed.embed_dim

-----------------------------------------------------------------------------
(* Vocabulary of the claims about calls *)

ConfiguredSize == <<self.img_size, self.img_size>>

\* N = (img_size / patch_size)^2
NumPatchesOf(a) == (a.img_size \div a.patch_size) * (a.img_size \div a.patch_size)

\* both images have the configured size and the two batch sizes agree
InputsConform(o) ==
    o.magno.hw = ConfiguredSize /\ o.line.hw = ConfiguredSize /\ o.magno.B = o.line.B

StrictlyIncreasing(q) == \A n \in 1 .. Len(q) - 1 : q[n] < q[n + 1]
Distinct(q) == \A n, m \in 1 .. Len(q) : n # m => q[n] # q[m]

HasTie(pat) == pat \in {"zero", "flat"}

-----------------------------------------------------------------------------
(* C2 *)

\* C2: for every line drawing of the configured size (blank, all-equal or
\* graded), every threshold and every batch element, selection does not raise
\* and yields exactly k indices, the same k for every batch element: in
\* forward k is the selector's count and every sequence given to the blocks
\* has k + 1 entries; in get_selected_patch_indices k is the count of
\* get_num_selected_patches.
C2_FixedSelectionCount ==
    /\ (out.op = "forward" /\ InputsConform(out)) =>
          /\ out.at \notin {"scorer", "patch_embed", "selector"}
          /\ DOMAIN out.sel = 1 .. out.magno.B
          /\ \A b \in 1 .. out.magno.B :
                Len(out.sel[b]) = SelectorK(self.num_patches, self.patch_percentage)
          /\ out.status = "ok" =>
                \A b \in 1 .. out.magno.B :
                   Len(out.seq[b]) = SelectorK(self.num_patches, self.patch_percentage) + 1
    /\ (out.op = "get_selected_patch_indices" /\ out.line.hw = ConfiguredSize) =>
          /\ out.status = "ok"
          /\ DOMAIN out.indices = 1 .. out.line.B
          /\ \A b \in 1 .. out.line.B :
                Len(out.indices[b]) = get_num_selected_patches(self)

C2_Witness ==
    /\ out.op = "forward"
    /\ out.status = "ok"
    /\ out.line.B = 2
    /\ out.line.pat[1] = "zero"
    /\ out.line.pat[2] = "asc"
    /\ self.num_patches > 1

-----------------------------------------------------------------------------
(* C3 *)

RoundedCount(a) == Max(1, Round(NumPatchesOf(a) * a.ppNum, PPDen))
TruncatedCount(a) == Max(1, (NumPatchesOf(a) * a.ppNum) \div PPDen)

\* C3 as stated: the count returned by get_num_selected_patches, reported as
\* selected_patches by get_model_info and used by get_selected_patch_indices
\* is max(1, round(N * patch_percentage)), at least 1 and at most N.
C3_RoundedCount ==
    /\ RoundedCount(args) \in 1 .. NumPatchesOf(args)
    /\ out.op = "get_num_selected_patches" => out.result = RoundedCount(args)
    /\ out.op = "get_model_info" => out.result.selected_patches = RoundedCount(args)
    /\ (out.op = "get_selected_patch_indices" /\ out.line.hw = ConfiguredSize) =>
          out.k = RoundedCount(args)

\* C3 amended: that count is max(1, int(N * patch_percentage)), the product
\* truncated instead of rounded; it is at least 1 and at most N.
C3_TruncatedCount ==
    /\ out.op = "get_num_selected_patches" =>
          out.result = TruncatedCount(args) /\ out.result \in 1 .. NumPatchesOf(args)
    /\ out.op = "get_model_info" =>
          /\ out.result.selected_patches = TruncatedCount(args)
          /\ out.result.selected_patches \in 1 .. out.result.num_patches
          /\ out.result.num_patches = NumPatchesOf(args)
    /\ (out.op = "get_selected_patch_indices" /\ out.line.hw = ConfiguredSize) =>
          out.k = TruncatedCount(args) /\ out.k \in 1 .. NumPatchesOf(args)

C3_Witness ==
    /\ out.op = "get_model_info"
    /\ out.result.selected_patches # RoundedCount(args)
    /\ out.result.selected_patches > 1

-----------------------------------------------------------------------------
(* C4 *)

\* C4 as stated: the selected indices of every batch element are strictly
\* increasing, in forward and in get_selected_patch_indices.
C4_IncreasingEverywhere ==
    /\ (out.op = "forward" /\ out.status = "ok") =>
          \A b \in DOMAIN out.sel : StrictlyIncreasing(out.sel[b])
    /\ (out.op = "get_selected_patch_indices" /\ out.status = "ok") =>
          \A b \in DOMAIN out.indices : StrictlyIncreasing(out.indices[b])

\* C4 amended: the selected indices of every batch element are pairwise
\* distinct in both; those behind the sequence of forward are strictly
\* increasing; those reported by get_selected_patch_indices are in rank order,
\* the raw score never increasing from one to the next.
C4_DistinctAndOrdered ==
    /\ (out.op = "forward" /\ out.status = "ok") =>
          \A b \in DOMAIN out.sel :
             /\ StrictlyIncreasing(out.sel[b])
             /\ Distinct(out.sel[b])
             /\ Range(out.sel[b]) \subseteq 0 .. self.num_patches - 1
    /\ (out.op = "get_selected_patch_indices" /\ out.status = "ok") =>
          \A b \in DOMAIN out.indices :
             LET sc == Scorer(out.line, self.patch_size).scores[b]
                 q  == out.indices[b]
             IN  /\ Distinct(q)
                 /\ Range(q) \subseteq DOMAIN sc
                 /\ \A n \in 1 .. Len(q) - 1 : sc[q[n]] >= sc[q[n + 1]]

C4_Witness ==
    /\ out.op = "get_selected_patch_indices"
    /\ out.status = "ok"
    /\ \E b \in DOMAIN out.indices :
          Len(out.indices[b]) > 1 /\ ~StrictlyIncreasing(out.indices[b])

-----------------------------------------------------------------------------
(* C5 *)

\* C5: in every sequence forward gives to the blocks, for every batch
\* element, entry 0 is the classification token with positional embedding 0,
\* entries 1..k are the selected patches of that batch element, each with the
\* positional embedding of its original index + 1 (never slot 0), the length
\* is k + 1, the classification token occurs once, and the logits are read
\* from position 0 of the block output for that sequence.
C5_ClsTokenFirst ==
    (out.op = "forward" /\ out.status = "ok") =>
       \A b \in 1 .. out.magno.B :
          LET q == out.seq[b]
              k == SelectorK(self.num_patches, self.patch_percentage)
          IN  /\ Len(q) = k + 1
              /\ q[1].kind = "cls" /\ q[1].pos = 0 /\ q[1].val = vit.cls_token.val
              /\ \A i \in 2 .. Len(q) :
                    /\ q[i].kind = "patch"
                    /\ q[i].src = <<b, out.sel[b][i - 1]>>
                    /\ q[i].pos = out.sel[b][i - 1] + 1
                    /\ q[i].pos \in 1 .. self.num_patches
              /\ Cardinality({i \in 1 .. Len(q) : q[i].kind = "cls"}) = 1
              /\ out.logits[b].from.at = 0
              /\ out.logits[b].from.of = q

C5_Witness ==
    /\ out.op = "forward"
    /\ out.status = "ok"
    /\ out.magno.B = 2
    /\ Len(out.seq[2]) > 2

-----------------------------------------------------------------------------
(* C6 *)

-----------------------------------------------------------------------------
(* C7 *)

-----------------------------------------------------------------------------
(* C8 *)

-----------------------------------------------------------------------------
(* C10 *)

Supplied(x) == x # None

\* C10: once the overrides have been applied every option given on the
\* command line is the value of its configuration entry, every entry without
\* an option still has the value of the configuration file, and the data
\* loaders and the model are created from those values: the model is
\* constructed with the patch_percentage given on the command line.
C10_SuppliedOverridesWin ==
    /\ tpc \in {"overridden", "dataloaders", "model", "crashed"} =>
          /\ Supplied(targs.patch_percentage) =>
                config.patch_percentage = targs.patch_percentage[1]
          /\ Supplied(targs.batch_size) => config.batch_size = targs.batch_size[1]
          /\ Supplied(targs.epochs) => config.epochs = targs.epochs[1]
          /\ Supplied(targs.magno_dir) => config.magno_dir = targs.magno_dir[1]
          /\ Supplied(targs.lines_dir) => config.lines_dir = targs.lines_dir[1]
          /\ Supplied(targs.output_dir) => config.output_dir = targs.output_dir[1]
          /\ \E f \in ConfigFiles :
                /\ ~Supplied(targs.patch_percentage) =>
                      config.patch_percentage = f.patch_percentage
                /\ ~Supplied(targs.batch_size) => config.batch_size = f.batch_size
                /\ ~Supplied(targs.epochs) => config.epochs = f.epochs
                /\ ~Supplied(targs.magno_dir) => config.magno_dir = f.magno_dir
                /\ ~Supplied(targs.lines_dir) => config.lines_dir = f.lines_dir
                /\ ~Supplied(targs.output_dir) => config.output_dir = f.output_dir
    /\ tpc \in {"dataloaders", "model", "crashed"} =>
          /\ Supplied(targs.batch_size) => loaders.batch_size = targs.batch_size[1]
          /\ Supplied(targs.magno_dir) => loaders.magno_dir = targs.magno_dir[1]
    /\ (tpc \in {"model", "crashed"} /\ Supplied(targs.patch_percentage)) =>
          args.ppNum = targs.patch_percentage[1]

====
